---- MODULE Spec2Model ----
(***************************************************************************)
(* Domain generation and weak labelling of HoloClean                        *)
(* (src/domain/domain.py, class DomainEngine) and its co-occurrence         *)
(* featurizer (src/repair/featurize/occurattrfeat.py).                      *)
(*                                                                          *)
(* Conventions of the model                                                 *)
(*  - a Python dict is a TLA+ function; a dict whose iteration order is     *)
(*    read by the code (the val2 -> count maps of pair_stats) is the        *)
(*    sequence of its items <<key, value>>.                                 *)
(*  - a probability count/denom is kept exact as the pair of integers; the  *)
(*    configured thresholds are integers in hundredths (0.9 is 90).         *)
(*    Posterior probabilities are integers in units of 1/ProbScale.         *)
(*  - the '|||'-joined domain string of a record is kept as the list of     *)
(*    its values (values never contain the separator).                      *)
(*  - the iteration order of a Python set of strings is not fixed by the    *)
(*    program: it is the order hash_order, chosen when a process starts.    *)
(***************************************************************************)
EXTENDS Integers, Sequences, FiniteSets, TLC

VARIABLES
    env,                \* session configuration (self.env, cor_strength, ...)
    max_sample,         \* self.max_sample
    raw,                \* self.ds.get_raw_data(): sequence of rows
    active_attributes,  \* self.active_attributes (a set of attribute names)
    correlations,       \* self.correlations: columns and coefficient matrix
    single_stats,       \* self.single_stats
    pair_stats,         \* pair_stats returned by ds.get_statistics()
    hash_order,         \* iteration order of sets of strings in this process
    pc,                 \* position in setup()/generate_domain()
    error,              \* the exception that aborted the session, or "none"
    pruned_pair_stats,  \* self.pruned_pair_stats
    temp_stats,         \* self._temp_stats (sorted candidates with counts)
    rng,                \* state of the module-level random source
    ri,                 \* index of the raw row being visited
    ai,                 \* index of the active attribute being visited
    vid,                \* next variable id
    cells,              \* records emitted so far (list 'cells')
    domain_df,          \* batch after the first pass, sorted by _vid_
    estimator,          \* the trained posterior model (Logistic)
    preds,              \* estimator output of the row refined last
    updated_domain_df,  \* rows re-assembled by the refinement stage
    num_weak_labels,    \* counter of weak labels assigned
    result,             \* batch returned by generate_domain, or <<>>
    cell_ret,           \* last return value of get_domain_cell
    run,                \* number of the current session (1 or 2)
    prev_result,        \* batch returned by the previous session
    corr_attrs,         \* featurizer: self._corr_attrs, read at threshold 0
    attr_pair_to_idx,   \* featurizer: self.attr_pair_to_idx
    classes,            \* featurizer: self.classes, rows of a feature tensor
    tensors             \* featurizer: list 'tensors' of create_tensor

vars == <<env, max_sample, raw, active_attributes, correlations, single_stats,
          pair_stats, hash_order, pc, error, pruned_pair_stats, temp_stats,
          rng, ri, ai, vid, cells, domain_df, estimator, preds,
          updated_domain_df, num_weak_labels, result, cell_ret, run,
          prev_result, corr_attrs, attr_pair_to_idx, classes, tensors>>

\* the state of OccurAttrFeaturizer, which the domain engine never touches
featurizer == <<corr_attrs, attr_pair_to_idx, classes, tensors>>

(***************************************************************************)
(* Bounds of the model.                                                     *)
(***************************************************************************)
MaxCount == 3        \* largest joint frequency in the pruning inputs
MaxRows == 3         \* largest number of rows of the raw data
MaxSample == 2       \* largest max_sample
MaxDomain == 2       \* largest max_domain
ProbScale == 4       \* posterior probabilities are k/ProbScale

(***************************************************************************)
(* Values.                                                                  *)
(***************************************************************************)
NULL == "<null>"     \* a value for which pd.isnull() is true
NAN_TOKEN == "_nan_" \* placeholder of a missing value in the statistics

NOT_SET == "NOT_SET"
WEAK_LABEL == "WEAK_LABEL"
SINGLE_VALUE == "SINGLE_VALUE"

Range(s) == {s[i] : i \in 1..Len(s)}
Min(a, b) == IF a <= b THEN a ELSE b
EmptyMap == [k \in {} |-> 0]

\* list.index(v): position (1-based here) of the first occurrence of v
IndexOf(s, v) == CHOOSE i \in 1..Len(s) : s[i] = v /\ \A j \in 1..(i-1) : s[j] # v

\* all sequences without repetition over the whole set S
Perms(S) == {p \in [1..Cardinality(S) -> S] : \A i, j \in 1..Cardinality(S) : i # j => p[i] # p[j]}

\* all sequences without repetition of length n over S
Arrangements(S, n) == {p \in [1..n -> S] : \A i, j \in 1..n : i # j => p[i] # p[j]}

(***************************************************************************)
(* sorted(items, key=lambda t: t[1], reverse=True): a stable sort, items    *)
(* with equal keys keep their original order.                               *)
(***************************************************************************)
RECURSIVE InsertDesc(_, _)
InsertDesc(s, e) ==
    IF s = <<>> THEN <<e>>
    ELSE IF Head(s)[2] >= e[2] THEN <<Head(s)>> \o InsertDesc(Tail(s), e)
    ELSE <<e>> \o s

RECURSIVE SortedDesc(_)
SortedDesc(s) ==
    IF s = <<>> THEN <<>>
    ELSE InsertDesc(SortedDesc(SubSeq(s, 1, Len(s) - 1)), s[Len(s)])

RECURSIVE SumCounts(_)
SumCounts(s) == IF s = <<>> THEN 0 ELSE Head(s)[2] + SumCounts(Tail(s))

(***************************************************************************)
(* _pruned_pair_stats                                                       *)
(***************************************************************************)
\* cum_proba > self.env['domain_top_percentile'], cum_proba = cum/denom
ExceedsCutoff(cum, denom, pct) == cum * 100 > pct * denom

\* a variant that never lets the kept mass exceed the cutoff
RECURSIVE TopCdfLoopStrict(_, _, _, _, _)
TopCdfLoopStrict(sorted_cands, i, cum, denom, pct) ==
    IF i > Len(sorted_cands) \/ ExceedsCutoff(cum + sorted_cands[i][2], denom, pct) THEN <<>>
    ELSE <<sorted_cands[i][1]>>
         \o TopCdfLoopStrict(sorted_cands, i + 1, cum + sorted_cands[i][2], denom, pct)

\* the loop of lines 132-138 from position i with accumulated count cum
RECURSIVE TopCdfLoop(_, _, _, _, _)
TopCdfLoop(sorted_cands, i, cum, denom, pct) ==
    IF i > Len(sorted_cands) \/ ExceedsCutoff(cum, denom, pct) THEN <<>>
    ELSE <<sorted_cands[i][1]>>
         \o TopCdfLoop(sorted_cands, i + 1, cum + sorted_cands[i][2], denom, pct)

\* assert(abs(sum(proba) - 1.0) < 1e-6), counts far below 10^6
MassIsOne(cands, denom) == SumCounts(cands) = denom

AllMassIsOne(ps, ss) ==
    \A a1 \in DOMAIN ps : \A a2 \in DOMAIN ps[a1] : \A v1 \in DOMAIN ps[a1][a2] :
        MassIsOne(ps[a1][a2][v1], ss[a1][v1])

\* tempout of _pruned_pair_stats
TempOut(ps) ==
    [a1 \in DOMAIN ps |-> [a2 \in DOMAIN ps[a1] |->
        [v1 \in DOMAIN ps[a1][a2] |-> SortedDesc(ps[a1][a2][v1])]]]

\* out of _pruned_pair_stats
PrunedOut(ps, ss, pct) ==
    [a1 \in DOMAIN ps |-> [a2 \in DOMAIN ps[a1] |->
        [v1 \in DOMAIN ps[a1][a2] |->
            TopCdfLoop(SortedDesc(ps[a1][a2][v1]), 1, 0, ss[a1][v1], pct)]]]

(***************************************************************************)
(* get_corr_attributes: the columns of self.correlations, in column order,  *)
(* whose absolute coefficient with attr is above thres, attr excluded.      *)
(* The memo self._corr_attrs caches this value per (attr, thres);           *)
(* self.correlations never changes after find_correlations.                 *)
(***************************************************************************)
Abs(x) == IF x < 0 THEN 0 - x ELSE x

get_corr_attributes(corr, attr, thres) ==
    IF attr \notin Range(corr.cols) THEN <<>>
    ELSE SelectSeq(corr.cols, LAMBDA c : Abs(corr.coef[attr][c]) > thres /\ c # attr)

(***************************************************************************)
(* get_domain_cell                                                          *)
(***************************************************************************)
isnull(v) == v = NULL

\* a variant that skips an entirely empty pruned map instead of stopping
RECURSIVE DomainLoopNoBreak(_, _, _, _, _, _)
DomainLoopNoBreak(conds, i, attr, row, pps, domain) ==
    IF i > Len(conds) THEN [raised |-> FALSE, domain |-> domain]
    ELSE LET cond_attr == conds[i] IN
         IF cond_attr = attr \/ cond_attr = "index" \/ cond_attr = "_tid_"
         THEN DomainLoopNoBreak(conds, i + 1, attr, row, pps, domain)
         ELSE IF isnull(row[cond_attr])
         THEN DomainLoopNoBreak(conds, i + 1, attr, row, pps, domain)
         ELSE LET s == pps[cond_attr][attr] IN
              IF row[cond_attr] \in DOMAIN s
              THEN DomainLoopNoBreak(conds, i + 1, attr, row, pps,
                                     domain \cup Range(s[row[cond_attr]]))
              ELSE IF ~isnull(row[attr]) /\ DOMAIN s # {}
              THEN [raised |-> TRUE, domain |-> domain]
              ELSE DomainLoopNoBreak(conds, i + 1, attr, row, pps, domain)

\* a variant that raises on every absent conditioning value
RECURSIVE DomainLoopAlwaysRaise(_, _, _, _, _, _)
DomainLoopAlwaysRaise(conds, i, attr, row, pps, domain) ==
    IF i > Len(conds) THEN [raised |-> FALSE, domain |-> domain]
    ELSE LET cond_attr == conds[i] IN
         IF cond_attr = attr \/ cond_attr = "index" \/ cond_attr = "_tid_"
         THEN DomainLoopAlwaysRaise(conds, i + 1, attr, row, pps, domain)
         ELSE IF isnull(row[cond_attr])
         THEN DomainLoopAlwaysRaise(conds, i + 1, attr, row, pps, domain)
         ELSE LET s == pps[cond_attr][attr] IN
              IF DOMAIN s = {}
              THEN [raised |-> FALSE, domain |-> domain]
              ELSE IF row[cond_attr] \in DOMAIN s
              THEN DomainLoopAlwaysRaise(conds, i + 1, attr, row, pps,
                                         domain \cup Range(s[row[cond_attr]]))
              ELSE [raised |-> TRUE, domain |-> domain]

\* the loop of lines 356-372 from position i of correlated_attributes
RECURSIVE DomainLoop(_, _, _, _, _, _)
DomainLoop(conds, i, attr, row, pps, domain) ==
    IF i > Len(conds) THEN [raised |-> FALSE, domain |-> domain]
    ELSE LET cond_attr == conds[i] IN
         IF cond_attr = attr \/ cond_attr = "index" \/ cond_attr = "_tid_"
         THEN DomainLoop(conds, i + 1, attr, row, pps, domain)
         ELSE IF isnull(row[cond_attr])
         THEN DomainLoop(conds, i + 1, attr, row, pps, domain)
         ELSE LET s == pps[cond_attr][attr] IN
              IF DOMAIN s = {}
              THEN [raised |-> FALSE, domain |-> domain]          \* break
              ELSE IF row[cond_attr] \in DOMAIN s
              THEN DomainLoop(conds, i + 1, attr, row, pps,
                              domain \cup Range(s[row[cond_attr]]))
              ELSE IF ~isnull(row[attr])
              THEN [raised |-> TRUE, domain |-> domain]           \* raise
              ELSE DomainLoop(conds, i + 1, attr, row, pps, domain)

\* list(S) for a set S of strings: its elements in the process's set order
ListOf(S, order) == SelectSeq(order, LAMBDA v : v \in S)

\* get_domain_cell(attr, row): raised, or (init_value, list(domain))
get_domain_cell(attr, row, corr, thres, pps, order) ==
    LET loop == DomainLoop(get_corr_attributes(corr, attr, thres), 1, attr, row, pps, {})
        domain == (loop.domain \ {NAN_TOKEN}) \cup {row[attr]}
    IN  [raised |-> loop.raised,
         init_value |-> row[attr],
         dom |-> IF loop.raised THEN <<>> ELSE ListOf(domain, order)]

(***************************************************************************)
(* random: the module-level source is a deterministic generator; seed()     *)
(* sets its state and every draw advances it.  random.sample(population, k) *)
(* on a set takes tuple(population) and then, k times, moves the element at *)
(* a drawn position j of the remaining pool to the result and the last      *)
(* remaining element into position j.                                       *)
(***************************************************************************)
NextRng(r) == (5 * r + 3) % 16
randbelow(r, n) == r % n

RECURSIVE SampleLoop(_, _, _, _)
SampleLoop(pool, n, k, r) ==
    IF k = 0 THEN [values |-> <<>>, rng |-> r]
    ELSE LET j == randbelow(r, n) + 1
             pool2 == [pool EXCEPT ![j] = pool[n]]
             rest == SampleLoop(pool2, n - 1, k - 1, NextRng(r))
         IN  [values |-> <<pool[j]>> \o rest.values, rng |-> rest.rng]

random_sample(population, k, r) == SampleLoop(population, Len(population), k, r)

\* a variant that does not discard cur_value from the pool
get_random_domain_keep(ss, ms, attr, cur_value, order, r) ==
    LET domain_pool == DOMAIN ss[attr]
        size == Cardinality(domain_pool)
    IN  IF size > 0
        THEN random_sample(ListOf(domain_pool, order), Min(ms, size), r)
        ELSE [values |-> <<>>, rng |-> r]

\* get_random_domain(attr, cur_value)
get_random_domain(ss, ms, attr, cur_value, order, r) ==
    LET domain_pool == DOMAIN ss[attr] \ {cur_value}
        size == Cardinality(domain_pool)
    IN  IF size > 0
        THEN random_sample(ListOf(domain_pool, order), Min(ms, size), r)
        ELSE [values |-> <<>>, rng |-> r]

(***************************************************************************)
(* The refinement stage of generate_domain, lines 284-316, for one row.     *)
(***************************************************************************)
\* proba >= thresh, proba = k/ProbScale and thresh in hundredths
GeThresh(k, thresh) == k * 100 >= thresh * ProbScale

\* max(preds, key=lambda pred: pred[1]): the first item with the largest key
MaxPred(ps) ==
    ps[CHOOSE i \in 1..Len(ps) :
        /\ \A j \in 1..Len(ps) : ps[j][2] <= ps[i][2]
        /\ \A j \in 1..(i - 1) : ps[j][2] < ps[i][2]]

Firsts(ps) == [i \in 1..Len(ps) |-> ps[i][1]]

\* line 291: the filtered list, or the original list when nothing is left
FilterPreds(ps, thresh) ==
    LET kept == SelectSeq(ps, LAMBDA t : GeThresh(t[2], thresh))
    IN  IF kept # <<>> THEN kept ELSE ps

\* a variant that caps the list without sorting it first
CapDomainUnsorted(ps, max_domain) ==
    Firsts(SubSeq(ps, 1, Min(max_domain, Len(ps))))

\* line 294: the values of the max_domain most probable items
CapDomain(ps, max_domain) ==
    Firsts(SubSeq(SortedDesc(ps), 1, Min(max_domain, Len(ps))))

\* a variant that compares the best probability strictly
WeakLabelHitStrict(prob, thresh) == prob * 100 > thresh * ProbScale

\* line 308
WeakLabelHit(prob, thresh) == GeThresh(prob, thresh)

\* a variant that appends the initial value without looking for it
EnsureInitAlways(domain_values, init_value) == Append(domain_values, init_value)

\* lines 297-298
EnsureInit(domain_values, init_value) ==
    IF init_value \notin Range(domain_values)
    THEN Append(domain_values, init_value)
    ELSE domain_values

\* lines 302 and 311-313: the index of the weak label in the new domain
WeakLabelIdx(domain_values, hit, best_value, row) ==
    IF hit THEN IndexOf(domain_values, best_value) - 1
    ELSE IndexOf(domain_values, row.weak_label) - 1

\* a variant that refines the cells marked SINGLE_VALUE like the others
RefineRowAll(row, ps, e) ==
    LET preds2 == FilterPreds(ps, e.domain_thresh_2)
        domain_values == EnsureInit(CapDomain(preds2, e.max_domain), row.init_value)
        best == MaxPred(preds2)
        hit == WeakLabelHit(best[2], e.weak_label_thresh)
    IN  IF \/ row.weak_label \notin Range(domain_values)
           \/ (hit /\ best[1] \notin Range(domain_values))
        THEN [raised |-> TRUE, row |-> row]
        ELSE [raised |-> FALSE,
              row |-> [row EXCEPT
                 !.domain = domain_values,
                 !.domain_size = Len(domain_values),
                 !.init_index = IndexOf(domain_values, row.init_value) - 1,
                 !.weak_label = IF hit THEN best[1] ELSE row.weak_label,
                 !.weak_label_idx = WeakLabelIdx(domain_values, hit, best[1], row),
                 !.fixed = IF hit THEN WEAK_LABEL ELSE row.fixed]]

\* lines 286-316: the row appended to updated_domain_df, or a ValueError
\* raised by list.index
RefineRow(row, ps, e) ==
    IF row.fixed = SINGLE_VALUE THEN [raised |-> FALSE, row |-> row]
    ELSE
    LET preds2 == FilterPreds(ps, e.domain_thresh_2)
        domain_values == EnsureInit(CapDomain(preds2, e.max_domain), row.init_value)
        best == MaxPred(preds2)
        hit == WeakLabelHit(best[2], e.weak_label_thresh)
    IN  IF \/ row.weak_label \notin Range(domain_values)
           \/ row.init_value \notin Range(domain_values)
           \/ (hit /\ best[1] \notin Range(domain_values))
        THEN [raised |-> TRUE, row |-> row]
        ELSE [raised |-> FALSE,
              row |-> [row EXCEPT
                 !.domain = domain_values,
                 !.domain_size = Len(domain_values),
                 !.init_index = IndexOf(domain_values, row.init_value) - 1,
                 !.weak_label = IF hit THEN best[1] ELSE row.weak_label,
                 !.weak_label_idx = WeakLabelIdx(domain_values, hit, best[1], row),
                 !.fixed = IF hit THEN WEAK_LABEL ELSE row.fixed]]

\* DataFrame.sort_values('_vid_')
RECURSIVE InsertByVid(_, _)
InsertByVid(s, r) ==
    IF s = <<>> THEN <<r>>
    ELSE IF Head(s)._vid_ <= r._vid_ THEN <<Head(s)>> \o InsertByVid(Tail(s), r)
    ELSE <<r>> \o s

RECURSIVE SortByVid(_)
SortByVid(s) ==
    IF s = <<>> THEN <<>>
    ELSE InsertByVid(SortByVid(SubSeq(s, 1, Len(s) - 1)), s[Len(s)])

(***************************************************************************)
(* External collaborators.                                                  *)
(***************************************************************************)
\* Dataset.get_statistics(): frequencies over the raw data
RowsWith(d, a, v) == SelectSeq(d, LAMBDA r : r[a] = v)

RECURSIVE Distinct(_)
Distinct(s) ==
    IF s = <<>> THEN <<>>
    ELSE LET rest == Distinct(SubSeq(s, 1, Len(s) - 1))
         IN  IF s[Len(s)] \in Range(rest) THEN rest ELSE Append(rest, s[Len(s)])

ColumnValues(d, a) == {d[i][a] : i \in 1..Len(d)}

SingleStatsOf(d, attrs) ==
    [a \in attrs |-> [v \in ColumnValues(d, a) |-> Len(RowsWith(d, a, v))]]

PairStatsOf(d, attrs) ==
    [a1 \in attrs |-> [a2 \in attrs \ {a1} |-> [v1 \in ColumnValues(d, a1) |->
        LET rows == RowsWith(d, a1, v1)
            vs == Distinct([i \in 1..Len(rows) |-> rows[i][a2]])
        IN  [i \in 1..Len(vs) |-> <<vs[i], Len(RowsWith(rows, a2, vs[i]))>>]]]]

\* Dataset.get_cell_id(tid, attr)
get_cell_id(attr_list, tid, attr) == tid * Len(attr_list) + IndexOf(attr_list, attr) - 1

\* Logistic.predict_pp_batch() for one cell: (value, probability) pairs over
\* the distinct values of the cell's domain, probabilities summing to 1
RECURSIVE SumTo(_, _)
SumTo(w, k) == IF k = 0 THEN 0 ELSE w[k] + SumTo(w, k - 1)

Weights(k) == {w \in [1..k -> 0..ProbScale] : SumTo(w, k) = ProbScale}

EstimatorOutputs(kind, dom) ==
    LET k == Len(dom) IN
    IF kind = "first"
    THEN {[i \in 1..k |-> <<dom[i], IF i = 1 THEN ProbScale ELSE 0>>]}
    ELSE IF kind = "last"
    THEN {[i \in 1..k |-> <<dom[i], IF i = k THEN ProbScale ELSE 0>>]}
    ELSE IF kind = "even"
    THEN {[i \in 1..k |->
             <<dom[i], (ProbScale \div k) + (IF i <= ProbScale % k THEN 1 ELSE 0)>>]}
    ELSE {[i \in 1..k |-> <<perm[i], w[i]>>] :
             perm \in Perms(Range(dom)), w \in Weights(k)}

(***************************************************************************)
(* Inputs of a session.                                                     *)
(***************************************************************************)
AttrList == <<"A", "B">>            \* ds.get_attributes()
ValsA == <<"x", "_nan_", "y">>
ValsB == <<"p", "q">>

Reverse(s) == [i \in 1..Len(s) |-> s[Len(s) + 1 - i]]
HashBase == <<"A", "B", "C", "x", "_nan_", "y", NULL, "z", "w", "p", "q", "r">>
HashOrders == {HashBase, Reverse(HashBase)}

\* value sequences in which a value appears only after the values before it
\* in vals: one representative of every renaming of the values
Growing(vals, n) ==
    {f \in [1..n -> Range(vals)] :
        \A i \in 1..n :
            \A k \in 1..(IndexOf(vals, f[i]) - 1) : \E j \in 1..(i - 1) : f[j] = vals[k]}

Datasets ==
    UNION {{[i \in 1..n |-> [_tid_ |-> i - 1, A |-> f[i], B |-> g[i]]] :
               f \in Growing(ValsA, n), g \in Growing(ValsB, n)} : n \in 1..MaxRows}

CorrOf(c) ==
    [cols |-> AttrList,
     coef |-> [a \in {"A", "B"} |-> [b \in {"A", "B"} |-> IF a = b THEN 100 ELSE c]]]

Correlations == {CorrOf(0 - 80), [cols |-> <<>>, coef |-> EmptyMap]}

Envs ==
    {e \in [seed : {1},
            cor_strength : {50},
            domain_top_percentile : {0, 90},
            domain_thresh_2 : {0, 50},
            weak_label_thresh : {75, 100},
            max_domain : {1, MaxDomain}] :
        e.weak_label_thresh = 100 => e.domain_thresh_2 = 0}

NoBatch == <<>>
NoRet == [raised |-> FALSE, init_value |-> NULL, dom |-> <<>>]

\* the featurizer before specific_setup() (lines 18-21)
NoFeaturizer ==
    /\ corr_attrs = EmptyMap
    /\ attr_pair_to_idx = EmptyMap
    /\ classes = 0
    /\ tensors = <<>>

Init ==
    /\ env \in Envs
    /\ max_sample \in {1, MaxSample}
    /\ raw \in Datasets
    /\ active_attributes \in {{"B"}, {"A", "B"}}
    /\ correlations \in Correlations
    /\ single_stats = SingleStatsOf(raw, Range(AttrList))
    /\ pair_stats = PairStatsOf(raw, Range(AttrList))
    /\ hash_order \in HashOrders
    /\ estimator \in {"first", "even"}
    /\ pc = "setup"
    /\ error = "none"
    /\ pruned_pair_stats = EmptyMap
    /\ temp_stats = EmptyMap
    /\ rng = 0
    /\ ri = 1
    /\ ai = 1
    /\ vid = 0
    /\ cells = <<>>
    /\ domain_df = NoBatch
    /\ preds = <<>>
    /\ updated_domain_df = <<>>
    /\ num_weak_labels = 0
    /\ result = NoBatch
    /\ cell_ret = NoRet
    /\ run = 1
    /\ prev_result = NoBatch
    /\ NoFeaturizer

inputs == <<env, max_sample, raw, active_attributes, correlations, single_stats,
            pair_stats, estimator>>

(***************************************************************************)
(* setup(), lines 42-45: seed the random source, find_correlations (the     *)
(* matrix is pandas' DataFrame.corr), setup_attributes.                     *)
(***************************************************************************)
Setup ==
    /\ pc = "setup"
    /\ rng' = env.seed
    /\ IF active_attributes = {}
       THEN /\ pc' = "error"
            /\ error' = "Exception"
            /\ UNCHANGED <<pruned_pair_stats, temp_stats>>
       ELSE IF ~AllMassIsOne(pair_stats, single_stats)
       THEN /\ pc' = "error"
            /\ error' = "AssertionError"
            /\ UNCHANGED <<pruned_pair_stats, temp_stats>>
       ELSE /\ pruned_pair_stats' =
                  PrunedOut(pair_stats, single_stats, env.domain_top_percentile)
            /\ temp_stats' = TempOut(pair_stats)
            /\ pc' = IF Len(raw) = 0 THEN "assemble" ELSE "generate"
            /\ error' = error
    /\ UNCHANGED <<inputs, featurizer, hash_order, ri, ai, vid, cells, domain_df, preds,
                   updated_domain_df, num_weak_labels, result, cell_ret, run,
                   prev_result>>

(***************************************************************************)
(* generate_domain, lines 212-254: one cell (row ri, active attribute ai).  *)
(***************************************************************************)
\* the record appended to app at lines 224-234 and 242-252
CellRecord(tid, attr, v, dom, init_value, init_value_idx, fixed) ==
    [_tid_ |-> tid,
     attribute |-> attr,
     _cid_ |-> get_cell_id(AttrList, tid, attr),
     _vid_ |-> v,
     domain |-> dom,
     domain_size |-> Len(dom),
     init_value |-> init_value,
     init_index |-> init_value_idx,
     weak_label |-> init_value,
     weak_label_idx |-> init_value_idx,
     fixed |-> fixed]

\* a variant that consumes a vid for every visited cell
NextVidAlways(v, emitted) == v + 1

\* vid += 1 at lines 235 and 253, inside the branches that emit a record
NextVid(v, emitted) == IF emitted THEN v + 1 ELSE v

GenCell ==
    /\ pc = "generate"
    /\ LET attrs == ListOf(active_attributes, hash_order)
           row == raw[ri]
           attr == attrs[ai]
           tid == row["_tid_"]
           ret == get_domain_cell(attr, row, correlations, env.cor_strength,
                                  pruned_pair_stats, hash_order)
           init_value == ret.init_value
           dom == ret.dom
           init_value_idx == IndexOf(dom, init_value) - 1
           add_domain == get_random_domain(single_stats, max_sample, attr,
                                           init_value, hash_order, rng)
           again == get_random_domain(single_stats, max_sample, attr,
                                      init_value, hash_order, add_domain.rng)
           emitted == Len(dom) > 1 \/ Len(add_domain.values) > 0
       IN  /\ cell_ret' = ret
           /\ IF ret.raised
              THEN /\ pc' = "error"
                   /\ error' = "KeyError"
                   /\ UNCHANGED <<rng, ri, ai, vid, cells>>
              ELSE IF emitted /\ isnull(init_value)
              THEN \* "|||".join(dom) accepts strings only
                   /\ pc' = "error"
                   /\ error' = "TypeError"
                   /\ rng' = IF Len(dom) > 1 THEN rng ELSE again.rng
                   /\ UNCHANGED <<ri, ai, vid, cells>>
              ELSE /\ cells' =
                         IF Len(dom) > 1
                         THEN Append(cells, CellRecord(tid, attr, vid, dom, init_value,
                                                       init_value_idx, NOT_SET))
                         ELSE IF Len(add_domain.values) > 0
                         THEN Append(cells, CellRecord(tid, attr, vid,
                                                       dom \o again.values, init_value,
                                                       init_value_idx, SINGLE_VALUE))
                         ELSE cells
                   /\ vid' = NextVid(vid, emitted)
                   /\ rng' = IF Len(dom) > 1 THEN rng
                             ELSE IF Len(add_domain.values) > 0 THEN again.rng
                             ELSE add_domain.rng
                   /\ IF ai < Len(attrs)
                      THEN ai' = ai + 1 /\ ri' = ri /\ pc' = pc
                      ELSE /\ ai' = 1
                           /\ ri' = ri + 1
                           /\ pc' = IF ri < Len(raw) THEN pc ELSE "assemble"
                   /\ error' = error
    /\ UNCHANGED <<inputs, featurizer, hash_order, pruned_pair_stats, temp_stats, domain_df,
                   preds, updated_domain_df, num_weak_labels, result, run,
                   prev_result>>

(***************************************************************************)
(* generate_domain, lines 255-262: the batch of the first pass, returned as *)
(* it is when no refinement is asked for.  DataFrame(data=[]) has no _vid_  *)
(* column: sort_values raises KeyError.                                     *)
(***************************************************************************)
SkipEstimator(e) == e.weak_label_thresh = 100 /\ e.domain_thresh_2 = 0

AssembleDomainDf ==
    /\ pc = "assemble"
    /\ IF cells = <<>>
       THEN /\ pc' = "error"
            /\ error' = "KeyError"
            /\ UNCHANGED <<domain_df, result>>
       ELSE /\ domain_df' = SortByVid(cells)
            /\ error' = error
            /\ IF SkipEstimator(env)
               THEN result' = SortByVid(cells) /\ pc' = "store"
               ELSE result' = result /\ pc' = "refine"
    /\ UNCHANGED <<inputs, featurizer, hash_order, pruned_pair_stats, temp_stats, rng, ri, ai,
                   vid, cells, preds, updated_domain_df, num_weak_labels,
                   cell_ret, run, prev_result>>

(***************************************************************************)
(* generate_domain, lines 284-316: one iteration of the refinement loop.    *)
(***************************************************************************)
RefineNext ==
    /\ pc = "refine"
    /\ Len(updated_domain_df) < Len(domain_df)
    /\ LET row == domain_df[Len(updated_domain_df) + 1] IN
       \E ps \in EstimatorOutputs(estimator, row.domain) :
          LET out == RefineRow(row, ps, env) IN
          /\ preds' = ps
          /\ IF out.raised
             THEN /\ pc' = "error"
                  /\ error' = "ValueError"
                  /\ UNCHANGED <<updated_domain_df, num_weak_labels>>
             ELSE /\ updated_domain_df' = Append(updated_domain_df, out.row)
                  /\ num_weak_labels' =
                        IF out.row.fixed = WEAK_LABEL
                        THEN num_weak_labels + 1 ELSE num_weak_labels
                  /\ pc' = pc
                  /\ error' = error
    /\ UNCHANGED <<inputs, featurizer, hash_order, pruned_pair_stats, temp_stats, rng, ri, ai,
                   vid, cells, domain_df, result, cell_ret, run, prev_result>>

\* line 319-325: the re-assembled batch, sorted by _vid_, is returned
ReturnRefined ==
    /\ pc = "refine"
    /\ Len(updated_domain_df) = Len(domain_df)
    /\ result' = SortByVid(updated_domain_df)
    /\ pc' = "store"
    /\ UNCHANGED <<inputs, featurizer, hash_order, error, pruned_pair_stats, temp_stats, rng,
                   ri, ai, vid, cells, domain_df, preds, updated_domain_df,
                   num_weak_labels, cell_ret, run, prev_result>>

(***************************************************************************)
(* store_domains, lines 81-88.                                              *)
(***************************************************************************)
StoreDomains ==
    /\ pc = "store"
    /\ IF result = <<>>
       THEN pc' = "error" /\ error' = "Exception"
       ELSE pc' = "done" /\ error' = error
    /\ UNCHANGED <<inputs, featurizer, hash_order, pruned_pair_stats, temp_stats, rng, ri, ai,
                   vid, cells, domain_df, preds, updated_domain_df,
                   num_weak_labels, result, cell_ret, run, prev_result>>

Next == Setup \/ GenCell \/ AssembleDomainDf \/ RefineNext \/ ReturnRefined \/ StoreDomains

Spec == Init /\ [][Next]_vars

(***************************************************************************)
(* Properties of a session (specification Spec).                            *)
(***************************************************************************)
NoDuplicates(s) == \A i, j \in 1..Len(s) : i # j => s[i] # s[j]
ActiveList == ListOf(active_attributes, hash_order)
Returned == pc \in {"store", "done"}

\* cell (row r, i-th active attribute) has been visited by the first pass
Visited(r, i) == pc # "setup" /\ (r < ri \/ (r = ri /\ i < ai))
VisitedCells == {c \in (1..Len(raw)) \X (1..Len(ActiveList)) : Visited(c[1], c[2])}

\* the domain get_domain_cell derives for cell (row r, i-th active attribute)
CorrDomain(r, i) ==
    get_domain_cell(ActiveList[i], raw[r], correlations, env.cor_strength,
                    pruned_pair_stats, hash_order).dom

\* positions in cells of the records of cell (row r, i-th active attribute)
RecordsOfCell(r, i) ==
    {k \in 1..Len(cells) :
        cells[k]._tid_ = raw[r]["_tid_"] /\ cells[k].attribute = ActiveList[i]}

WellFormed(r) ==
    /\ r.init_value \in Range(r.domain)
    /\ r.domain_size = Len(r.domain)
    /\ NoDuplicates(r.domain)
    /\ r.init_index \in 0..(r.domain_size - 1)
    /\ r.domain[r.init_index + 1] = r.init_value
    /\ r.weak_label_idx \in 0..(r.domain_size - 1)
    /\ r.domain[r.weak_label_idx + 1] = r.weak_label

\* C1: every record of the batch generate_domain returns, refined or not,
\* has init_value in its domain at init_index, a duplicate-free domain of
\* length domain_size, and weak_label at weak_label_idx.
C1_ReturnedRecordsWellFormed ==
    Returned => \A k \in 1..Len(result) : WellFormed(result[k])

\* a returned batch that went through refinement and holds a weak label that
\* replaced the initial value, next to a randomly padded record
C1_Witness ==
    /\ pc = "done"
    /\ ~SkipEstimator(env)
    /\ \E k \in 1..Len(result) :
          /\ result[k].fixed = WEAK_LABEL
          /\ result[k].weak_label # result[k].init_value
          /\ result[k].domain_size > 1
    /\ \E k \in 1..Len(result) : result[k].fixed = SINGLE_VALUE

\* C3: the vids of one pass are 0..n-1, assigned in increasing order as the
\* cells are visited (row order, then active-attribute order); only emitted
\* records consume a vid, and vid and cid correspond one to one.
C3_VidsDenseAndOrdered ==
    LET al == ActiveList IN
    /\ vid = Len(cells)
    /\ \A k \in 1..Len(cells) : cells[k]._vid_ = k - 1
    /\ \A k \in 1..(Len(cells) - 1) :
          \/ cells[k]._tid_ < cells[k + 1]._tid_
          \/ /\ cells[k]._tid_ = cells[k + 1]._tid_
             /\ IndexOf(al, cells[k].attribute) < IndexOf(al, cells[k + 1].attribute)
    /\ \A k, l \in 1..Len(cells) : k # l => cells[k]._cid_ # cells[l]._cid_
    /\ Returned => /\ Len(result) = Len(cells)
                   /\ \A k \in 1..Len(result) :
                         /\ result[k]._vid_ = k - 1
                         /\ result[k]._cid_ = cells[k]._cid_

\* a finished pass that emitted several records and dropped a visited cell
C3_Witness ==
    /\ pc = "done"
    /\ Len(result) >= 3
    /\ \E c \in VisitedCells : RecordsOfCell(c[1], c[2]) = {}
    /\ \E k \in 1..(Len(result) - 1) : result[k]._tid_ < result[k + 1]._tid_

\* the observed values of the attribute of cell (r, i) other than its own
Pool(r, i) == DOMAIN single_stats[ActiveList[i]] \ {raw[r][ActiveList[i]]}

\* what C7 says of the cell of row r and attribute attr
FallbackOf(r, attr) ==
    LET init == raw[r][attr]
        pool == DOMAIN single_stats[attr] \ {init}
        recs == {k \in 1..Len(cells) :
                   cells[k]._tid_ = raw[r]["_tid_"] /\ cells[k].attribute = attr}
    IN  IF pool # {}
        THEN \E k \in recs :
                /\ recs = {k}
                /\ cells[k].fixed = SINGLE_VALUE
                /\ cells[k].domain[1] = cells[k].init_value
                /\ cells[k].init_value = init
                /\ Len(cells[k].domain) = 1 + Min(max_sample, Cardinality(pool))
                /\ NoDuplicates(cells[k].domain)
                /\ \A j \in 2..Len(cells[k].domain) : cells[k].domain[j] \in pool
        ELSE recs = {} /\ vid = Len(cells)

C9_EveryVariableHasAlternatives ==
    Returned => \A k \in 1..Len(result) : result[k].domain_size > 1

(***************************************************************************)
(* SpecPrune: _pruned_pair_stats applied to the statistics of one           *)
(* conditioning value, every candidate list over three values with counts   *)
(* up to MaxCount, and cutoffs inside and outside [0, 1).                   *)
(***************************************************************************)
CandValues == {"x", "y", "z"}

CandLists ==
    UNION {{[i \in 1..n |-> <<vs[i], c[i]>>] :
               vs \in Arrangements(CandValues, n), c \in [1..n -> 1..MaxCount]} :
           n \in 1..Cardinality(CandValues)}

Percentiles == {0 - 10, 0, 30, 50, 75, 90, 99, 100}

InitPrune ==
    /\ env \in [seed : {1}, cor_strength : {50}, domain_top_percentile : Percentiles,
                domain_thresh_2 : {0}, weak_label_thresh : {100}, max_domain : {1}]
    /\ max_sample = 1
    /\ raw = <<>>
    /\ active_attributes = {"A"}
    /\ correlations = [cols |-> <<>>, coef |-> EmptyMap]
    /\ \E cands \in CandLists, slack \in {0, 1} :
          /\ pair_stats = [a1 \in {"A", "B"} |->
                IF a1 = "A" THEN [a2 \in {"B"} |-> [v1 \in {"p"} |-> cands]]
                ELSE [a2 \in {"A"} |-> EmptyMap]]
          /\ single_stats = [a \in {"A", "B"} |->
                IF a = "A" THEN [v \in {"p"} |-> SumCounts(cands) + slack]
                ELSE [v \in CandValues |-> 1]]
    /\ hash_order = HashBase
    /\ estimator = "even"
    /\ pc = "setup"
    /\ error = "none"
    /\ pruned_pair_stats = EmptyMap
    /\ temp_stats = EmptyMap
    /\ rng = 0
    /\ ri = 1
    /\ ai = 1
    /\ vid = 0
    /\ cells = <<>>
    /\ domain_df = NoBatch
    /\ preds = <<>>
    /\ updated_domain_df = <<>>
    /\ num_weak_labels = 0
    /\ result = NoBatch
    /\ cell_ret = NoRet
    /\ run = 1
    /\ prev_result = NoBatch
    /\ NoFeaturizer

NextPrune == Setup

SpecPrune == InitPrune /\ [][NextPrune]_vars

\* the triples (attribute1, attribute2, value1) of PairStats
PairKeys ==
    {k \in (DOMAIN pair_stats) \X (DOMAIN pair_stats) \X (CandValues \cup {"p", "q"}) :
        /\ k[2] \in DOMAIN pair_stats[k[1]]
        /\ k[3] \in DOMAIN pair_stats[k[1]][k[2]]}

\* full is cands sorted by count, largest first, equal counts in cands' order
IsStableSortDesc(full, cands) ==
    /\ Len(full) = Len(cands)
    /\ Range(full) = Range(cands)
    /\ \A i, j \in 1..Len(full) :
          i < j => \/ full[i][2] > full[j][2]
                   \/ /\ full[i][2] = full[j][2]
                      /\ IndexOf(cands, full[i]) < IndexOf(cands, full[j])

\* the count accumulated by the first k items
RECURSIVE Mass(_, _)
Mass(full, k) == IF k = 0 THEN 0 ELSE full[k][2] + Mass(full, k - 1)

Pruned == pc \notin {"setup", "error"}

\* C2: every pruned list is the shortest prefix of the candidates, sorted by
\* conditional probability descending (stable), whose mass strictly exceeds
\* top_percentile, or the whole list if none does; it is never empty for a
\* cutoff in [0, 1).
C2_PrunedIsShortestCrossingPrefix ==
    Pruned =>
    \A key \in PairKeys :
        LET cands == pair_stats[key[1]][key[2]][key[3]]
            full == temp_stats[key[1]][key[2]][key[3]]
            pruned == pruned_pair_stats[key[1]][key[2]][key[3]]
            denom == single_stats[key[1]][key[3]]
            pct == env.domain_top_percentile
            k == Len(pruned)
        IN  /\ IsStableSortDesc(full, cands)
            /\ k <= Len(full)
            /\ \A i \in 1..k : pruned[i] = full[i][1]
            /\ k = Len(full) \/ Mass(full, k) * 100 > pct * denom
            /\ \A j \in 0..(k - 1) : Mass(full, j) * 100 <= pct * denom
            /\ (0 <= pct /\ pct < 100 /\ cands # <<>>) => k >= 1

\* a list of three candidates with a tie, cut after the element that crosses
\* a cutoff the first element alone reaches exactly
C2_Witness ==
    /\ Pruned
    /\ \E key \in PairKeys :
          LET full == temp_stats[key[1]][key[2]][key[3]]
              cands == pair_stats[key[1]][key[2]][key[3]]
              pruned == pruned_pair_stats[key[1]][key[2]][key[3]]
          IN  /\ Len(full) = 3
              /\ full # cands
              /\ full[2][2] = full[3][2]
              /\ Len(pruned) = 2
              /\ full[1][2] * 100 = env.domain_top_percentile * single_stats[key[1]][key[3]]

(***************************************************************************)
(* SpecCell: the first pass on one cell of attribute A, with attributes B   *)
(* and C as conditioning attributes, over missing and present values and    *)
(* over pruned maps that are empty, hold the row's value, or lack it.       *)
(***************************************************************************)
CellRows == [_tid_ : {0}, A : {"w", "_nan_", NULL}, B : {"p", NULL}, C : {"q", NULL}]

PrunedLists == {<<"x", "y">>, <<"y", "z">>, <<"_nan_", "x">>, <<"w">>}

\* the pruned maps of one attribute pair for a row whose value is v
PrunedMaps(v) ==
    {EmptyMap} \cup {[k \in {v} |-> l] : l \in PrunedLists} \cup {[k \in {"r"} |-> <<"x">>]}

CellCorrelations ==
    {[cols |-> cs,
      coef |-> [a \in Range(cs) |-> [b \in Range(cs) |->
                  IF a = b THEN 100
                  ELSE IF {a, b} = {"A", "B"} THEN ab
                  ELSE IF {a, b} = {"A", "C"} THEN ac
                  ELSE IF {a, b} = {"A", "_tid_"} THEN 60
                  ELSE 10]]] :
        cs \in {<<"_tid_", "A", "B", "C">>, <<"C", "B", "A">>, <<"B", "C">>},
        ab \in {80, 0 - 70, 20}, ac \in {80, 50}}

InitCell ==
    /\ env \in [seed : {1}, cor_strength : {50}, domain_top_percentile : {90},
                domain_thresh_2 : {0}, weak_label_thresh : {100}, max_domain : {1}]
    /\ max_sample = 1
    /\ \E row \in CellRows : raw = <<row>>
    /\ active_attributes = {"A"}
    /\ correlations \in CellCorrelations
    /\ single_stats = [a \in {"A"} |-> [v \in {"w", "x"} |-> 1]]
    /\ pair_stats = EmptyMap
    /\ hash_order \in HashOrders
    /\ estimator = "even"
    /\ pc = "generate"
    /\ error = "none"
    /\ \E mb \in PrunedMaps("p"), mc \in PrunedMaps("q") :
          pruned_pair_stats = [c \in {"B", "C"} |->
                                 [a \in {"A"} |-> IF c = "B" THEN mb ELSE mc]]
    /\ temp_stats = EmptyMap
    /\ rng = 1
    /\ ri = 1
    /\ ai = 1
    /\ vid = 0
    /\ cells = <<>>
    /\ domain_df = NoBatch
    /\ preds = <<>>
    /\ updated_domain_df = <<>>
    /\ num_weak_labels = 0
    /\ result = NoBatch
    /\ cell_ret = NoRet
    /\ run = 1
    /\ prev_result = NoBatch
    /\ NoFeaturizer

NextCell == GenCell

SpecCell == InitCell /\ [][NextCell]_vars

\* the cell of SpecCell and what the row and the statistics say about it
CellDone == pc # "generate" /\ Len(raw) = 1 /\ active_attributes = {"A"}
TheRow == raw[1]
Bookkeeping == {"index", "_tid_"}
CondMap(i) == pruned_pair_stats[correlations.cols[i]]["A"]

\* positions, in column order, of the attributes correlated with A above the
\* threshold, other than A and the bookkeeping columns, present in the row
Conditioning ==
    IF "A" \notin Range(correlations.cols) THEN {}
    ELSE {i \in 1..Len(correlations.cols) :
            LET c == correlations.cols[i] IN
            /\ c # "A"
            /\ c \notin Bookkeeping
            /\ \/ correlations.coef["A"][c] > env.cor_strength
               \/ 0 - correlations.coef["A"][c] > env.cor_strength
            /\ TheRow[c] # NULL}

\* the first of them whose pruned map is entirely empty
IsStop(i) == i \in Conditioning /\ DOMAIN CondMap(i) = {}
BeforeStop(i) == \A j \in 1..i : ~IsStop(j)

\* a conditioning attribute whose non-empty map lacks the row's value
LacksValue(i) ==
    /\ i \in Conditioning
    /\ DOMAIN CondMap(i) # {}
    /\ TheRow[correlations.cols[i]] \notin DOMAIN CondMap(i)

Contributes(i) ==
    /\ i \in Conditioning
    /\ BeforeStop(i)
    /\ TheRow[correlations.cols[i]] \in DOMAIN CondMap(i)

ExpectedCandidates ==
    {TheRow["A"]}
      \cup (UNION {Range(CondMap(i)[TheRow[correlations.cols[i]]]) :
                     i \in {j \in Conditioning : Contributes(j)}} \ {NAN_TOKEN})

\* C6: get_domain_cell returns the initial value and, as candidates, the
\* initial value united with the pruned lists (placeholder removed) of the
\* correlated, non-missing conditioning attributes up to the first whose
\* pruned map is empty; a cell with more than one candidate is emitted with
\* status NOT_SET.
C6_DomainIsUnionOfPrunedLists ==
    (CellDone /\ ~cell_ret.raised) =>
        /\ cell_ret.init_value = TheRow["A"]
        /\ Range(cell_ret.dom) = ExpectedCandidates
        /\ NoDuplicates(cell_ret.dom)
        /\ (Len(cell_ret.dom) > 1 /\ error = "none") =>
              /\ Len(cells) = 1
              /\ cells[1].fixed = NOT_SET
              /\ Range(cells[1].domain) = ExpectedCandidates

\* candidates gathered from the first conditioning attribute are kept when
\* the second one's empty map stops the loop, the placeholder is dropped,
\* and the cell is emitted with status NOT_SET
C6_Witness ==
    /\ CellDone
    /\ error = "none"
    /\ \E i, j \in Conditioning : i < j /\ Contributes(i) /\ IsStop(j)
    /\ Cardinality(ExpectedCandidates) = 2
    /\ \E i \in Conditioning :
          Contributes(i) /\ NAN_TOKEN \in Range(CondMap(i)[TheRow[correlations.cols[i]]])
    /\ NAN_TOKEN \notin Range(cell_ret.dom)
    /\ Len(cells) = 1
    /\ cells[1].fixed = NOT_SET

FirstPassRecords(v) ==
    UNION {{CellRecord(v, "A", v, dom, dom[i], i - 1, NOT_SET) : i \in 1..Len(dom)} :
              dom \in {<<"x", "y">>, <<"x", "y", "z">>}}
    \cup {CellRecord(v, "A", v, <<"x", "y">>, "x", 0, SINGLE_VALUE)}

FirstPassBatches ==
    {<<r>> : r \in FirstPassRecords(0)}
    \cup {<<r1, r2>> : r1 \in {q \in FirstPassRecords(0) : q.domain_size = 2},
                       r2 \in FirstPassRecords(1)}

RefineEnvs ==
    {e \in [seed : {1}, cor_strength : {50}, domain_top_percentile : {90},
            domain_thresh_2 : {0, 50, 75}, weak_label_thresh : {50, 75, 100},
            max_domain : 1..MaxDomain] : ~SkipEstimator(e)}

InitRefine ==
    /\ env \in RefineEnvs
    /\ max_sample = 1
    /\ raw = <<>>
    /\ active_attributes = {"A"}
    /\ correlations = [cols |-> <<>>, coef |-> EmptyMap]
    /\ single_stats = EmptyMap
    /\ pair_stats = EmptyMap
    /\ hash_order = HashBase
    /\ estimator = "any"
    /\ pc = "refine"
    /\ error = "none"
    /\ pruned_pair_stats = EmptyMap
    /\ temp_stats = EmptyMap
    /\ rng = 1
    /\ ri = 1
    /\ ai = 1
    /\ domain_df \in FirstPassBatches
    /\ cells = domain_df
    /\ vid = Len(domain_df)
    /\ preds = <<>>
    /\ updated_domain_df = <<>>
    /\ num_weak_labels = 0
    /\ result = NoBatch
    /\ cell_ret = NoRet
    /\ run = 1
    /\ prev_result = NoBatch
    /\ NoFeaturizer

NextRefine == RefineNext \/ ReturnRefined \/ StoreDomains

SpecRefine == InitRefine /\ [][NextRefine]_vars

\* the row refined last: as it was, as it is, and the list it was given
Refined == Len(updated_domain_df) >= 1 /\ preds # <<>>
OldRow == domain_df[Len(updated_domain_df)]
NewRow == updated_domain_df[Len(updated_domain_df)]
Touched == Refined /\ OldRow.fixed # SINGLE_VALUE

\* probability and position of a value in the posterior list
ProbOf(v) == preds[IndexOf(Firsts(preds), v)][2]
PosOf(v) == IndexOf(Firsts(preds), v)
Ranks(u, v) == ProbOf(u) > ProbOf(v) \/ (ProbOf(u) = ProbOf(v) /\ PosOf(u) < PosOf(v))

\* the values at or above domain_threshold, or all of them when none is
AboveThreshold ==
    {preds[i][1] : i \in {j \in 1..Len(preds) :
                            preds[j][2] * 100 >= env.domain_thresh_2 * ProbScale}}
Candidates == IF AboveThreshold = {} THEN Range(Firsts(preds)) ELSE AboveThreshold
KeptCount == Min(env.max_domain, Cardinality(Candidates))
Kept == {NewRow.domain[i] : i \in 1..Min(KeptCount, Len(NewRow.domain))}

\* C4: the refined domain of a cell that is not SINGLE_VALUE is the
\* candidates at or above domain_threshold (all of them when none is), by
\* probability descending, cut to max_domain, with init_value appended if and
\* only if it is not among them; so init_value stays, the domain is not
\* empty, and domain_size exceeds max_domain, by one, only by that append.
C4_RefinedDomain ==
    /\ error # "ValueError"
    /\ Touched =>
        /\ Len(NewRow.domain) >= KeptCount
        /\ Kept \subseteq Candidates
        /\ Cardinality(Kept) = KeptCount
        /\ \A i, j \in 1..KeptCount : i < j => Ranks(NewRow.domain[i], NewRow.domain[j])
        /\ \A u \in Kept : \A v \in Candidates \ Kept : Ranks(u, v)
        /\ IF OldRow.init_value \in Kept
           THEN Len(NewRow.domain) = KeptCount
           ELSE /\ Len(NewRow.domain) = KeptCount + 1
                /\ NewRow.domain[KeptCount + 1] = OldRow.init_value
        /\ OldRow.init_value \in Range(NewRow.domain)
        /\ NewRow.domain_size = Len(NewRow.domain)
        /\ NewRow.domain_size >= 1
        /\ NewRow.domain_size > env.max_domain =>
              /\ NewRow.domain_size = env.max_domain + 1
              /\ OldRow.init_value \notin Kept

\* a three-valued cell whose filtered list was empty, so the unfiltered list
\* was cut to max_domain values, and init_value had to be appended
C4_Witness ==
    /\ Touched
    /\ Len(preds) = 3
    /\ AboveThreshold = {}
    /\ env.max_domain = 2
    /\ NewRow.domain_size = 3
    /\ OldRow.init_value \notin Kept
    /\ \E i, j \in 1..3 : i # j /\ preds[i][2] = preds[j][2]

\* the best item of the unfiltered list: the first with the largest probability
IsBest(i) ==
    /\ i \in 1..Len(preds)
    /\ \A j \in 1..Len(preds) : preds[j][2] <= preds[i][2]
    /\ \A j \in 1..(i - 1) : preds[j][2] < preds[i][2]

\* C5: with (best_value, best_probability) the argmax of the unfiltered
\* posterior list of a refined cell, best_probability >= weak_label_threshold
\* gives weak_label = best_value at weak_label_index and status WEAK_LABEL;
\* otherwise weak_label stays init_value and the status stays NOT_SET.
C5_WeakLabel ==
    Touched =>
        \E i \in 1..Len(preds) :
            /\ IsBest(i)
            /\ IF preds[i][2] * 100 >= env.weak_label_thresh * ProbScale
               THEN /\ NewRow.weak_label = preds[i][1]
                    /\ NewRow.weak_label_idx \in 0..(Len(NewRow.domain) - 1)
                    /\ NewRow.domain[NewRow.weak_label_idx + 1] = preds[i][1]
                    /\ NewRow.fixed = WEAK_LABEL
               ELSE /\ NewRow.weak_label = OldRow.init_value
                    /\ NewRow.domain[NewRow.weak_label_idx + 1] = OldRow.init_value
                    /\ NewRow.fixed = NOT_SET

\* a cell whose best probability equals the threshold: the best value, which
\* is not the initial value, becomes the weak label
C5_Witness ==
    /\ Touched
    /\ \E i \in 1..Len(preds) :
          /\ IsBest(i)
          /\ preds[i][2] * 100 = env.weak_label_thresh * ProbScale
          /\ preds[i][2] < ProbScale
          /\ preds[i][1] # OldRow.init_value
          /\ NewRow.weak_label = preds[i][1]
          /\ NewRow.fixed = WEAK_LABEL
    /\ Len(updated_domain_df) = 2
    /\ updated_domain_df[1].fixed = NOT_SET

\* what the refinement keeps of a record: its identity and initial value,
\* and all of it when it is marked SINGLE_VALUE
FrameKept(old, new) ==
    /\ new._tid_ = old._tid_
    /\ new._cid_ = old._cid_
    /\ new._vid_ = old._vid_
    /\ new.attribute = old.attribute
    /\ new.init_value = old.init_value
    /\ old.fixed = SINGLE_VALUE => new = old

\* C12: the refinement, given a posterior list per record of the initial
\* batch in vid order, does not fail and outputs one record per input record
\* in the same order; tid, cid, vid, attribute and init_value of every
\* record are unchanged, and a record marked SINGLE_VALUE is unchanged in
\* every field.
C12_RefinementFrame ==
    /\ pc # "error"
    /\ Len(updated_domain_df) <= Len(domain_df)
    /\ \A k \in 1..Len(updated_domain_df) : FrameKept(domain_df[k], updated_domain_df[k])
    /\ pc \in {"store", "done"} =>
          /\ Len(result) = Len(domain_df)
          /\ \A k \in 1..Len(result) : FrameKept(domain_df[k], result[k])

\* a returned batch of two records: the first one got a new domain and a
\* weak label, the second one is marked SINGLE_VALUE
C12_Witness ==
    /\ pc = "done"
    /\ Len(result) = 2
    /\ result[1].domain # domain_df[1].domain
    /\ result[1].fixed = WEAK_LABEL
    /\ result[2].fixed = SINGLE_VALUE

(***************************************************************************)
(* SpecRuns: two sessions on the same raw data, statistics, configuration   *)
(* and seed.  Each session is a process of its own, with its own order of   *)
(* iteration over sets of strings.                                          *)
(***************************************************************************)
InitRuns ==
    /\ Init
    /\ Len(raw) = 2
    /\ max_sample = 1
    /\ estimator = "even"
    /\ env.max_domain = MaxDomain

Restart ==
    /\ pc = "done"
    /\ run = 1
    /\ run' = 2
    /\ prev_result' = result
    /\ hash_order' \in HashOrders
    /\ pc' = "setup"
    /\ error' = "none"
    /\ pruned_pair_stats' = EmptyMap
    /\ temp_stats' = EmptyMap
    /\ rng' = 0
    /\ ri' = 1
    /\ ai' = 1
    /\ vid' = 0
    /\ cells' = <<>>
    /\ domain_df' = NoBatch
    /\ preds' = <<>>
    /\ updated_domain_df' = <<>>
    /\ num_weak_labels' = 0
    /\ result' = NoBatch
    /\ cell_ret' = NoRet
    /\ UNCHANGED <<inputs, featurizer>>

NextRuns == Next \/ Restart

SpecRuns == InitRuns /\ [][NextRuns]_vars

ZeroProb == <<0, 1>>

\* torch.zeros(1, self.classes, self.num_feats), line 54
Zeros(num_classes, num_feats) ==
    [c \in 0..(num_classes - 1) |-> [f \in 0..(num_feats - 1) |-> ZeroProb]]

\* position of the last occurrence of v in s: the entry a dict comprehension
\* over s keeps for the key v
LastIndexOf(s, v) == CHOOSE i \in 1..Len(s) : s[i] = v /\ \A j \in (i + 1)..Len(s) : s[j] # v

\* dict.get(k, default) on a val -> count map kept as its item list
Get(items, k, default) ==
    IF k \in Range(Firsts(items)) THEN items[LastIndexOf(Firsts(items), k)][2]
    ELSE default

\* lines 23-25: the (attr1, attr2) pairs, attr1 over all_attrs from position
\* i, attr2 over self._corr_attrs.get((attr1, 0), [])
RECURSIVE PairList(_, _, _)
PairList(attrs, i, ca) ==
    IF i > Len(attrs) THEN <<>>
    ELSE LET l == IF attrs[i] \in DOMAIN ca THEN ca[attrs[i]] ELSE <<>>
         IN  [k \in 1..Len(l) |-> <<attrs[i], l[k]>>] \o PairList(attrs, i + 1, ca)

\* line 23: {pair: idx for idx, pair in enumerate(pairs)}
PairToIdx(pairs) == [p \in Range(pairs) |-> LastIndexOf(pairs, p) - 1]

\* line 57: {val: idx for idx, val in enumerate(domain)}
rv_domain_idx(domain) == [v \in Range(domain) |-> LastIndexOf(domain, v) - 1]

\* a variant that scores the first values observed, as many as the domain has
ScoredValuesFirstK(all_vals, idx, domain) ==
    SubSeq(Firsts(all_vals), 1, Min(Len(all_vals), Cardinality(DOMAIN idx)))

\* lines 76-79: the values to score, idx being rv_domain_idx and domain the
\* split domain string
ScoredValues(all_vals, idx, domain) ==
    IF Len(all_vals) <= Cardinality(DOMAIN idx) THEN Firsts(all_vals) ELSE domain

\* lines 80-84: the loop over candidates from position j
RECURSIVE ScoreLoop(_, _, _, _, _, _, _)
ScoreLoop(candidates, j, all_vals, count1, idx, feat_idx, tensor) ==
    IF j > Len(candidates) THEN tensor
    ELSE LET rv_val == candidates[j]
             prob == <<Get(all_vals, rv_val, 0), count1>>
         IN  ScoreLoop(candidates, j + 1, all_vals, count1, idx, feat_idx,
                       IF rv_val \in DOMAIN idx
                       THEN [tensor EXCEPT ![idx[rv_val]][feat_idx] = prob]
                       ELSE tensor)

\* lines 58-84: the loop over all_attrs from position i; raised when the
\* exception of line 73 ends it
RECURSIVE FeatLoop(_, _, _, _, _, _, _, _, _)
FeatLoop(attrs, i, rv_attr, domain, tuple, pair_idx, ss, ps, tensor) ==
    IF i > Len(attrs) THEN [raised |-> FALSE, tensor |-> tensor]
    ELSE LET attr == attrs[i] IN
         IF <<rv_attr, attr>> \notin DOMAIN pair_idx
         THEN FeatLoop(attrs, i + 1, rv_attr, domain, tuple, pair_idx, ss, ps, tensor)
         ELSE IF attr = rv_attr \/ isnull(tuple[attr])
         THEN FeatLoop(attrs, i + 1, rv_attr, domain, tuple, pair_idx, ss, ps, tensor)
         ELSE LET val == tuple[attr]
                  count1 == ss[attr][val]
              IN  IF val \notin DOMAIN ps[attr][rv_attr]
                  THEN IF ~isnull(tuple[rv_attr])
                       THEN [raised |-> TRUE, tensor |-> tensor]
                       ELSE FeatLoop(attrs, i + 1, rv_attr, domain, tuple,
                                     pair_idx, ss, ps, tensor)
                  ELSE LET all_vals == ps[attr][rv_attr][val]
                           idx == rv_domain_idx(domain)
                       IN  FeatLoop(attrs, i + 1, rv_attr, domain, tuple,
                                    pair_idx, ss, ps,
                                    ScoreLoop(ScoredValues(all_vals, idx, domain), 1,
                                              all_vals, count1, idx,
                                              pair_idx[<<rv_attr, attr>>], tensor))

\* gen_feat_tensor(row, tuple), lines 53-85
gen_feat_tensor(row, tuple, attrs, pair_idx, num_classes, ss, ps) ==
    FeatLoop(attrs, 1, row.attribute, row.domain, tuple, pair_idx, ss, ps,
             Zeros(num_classes, Cardinality(DOMAIN pair_idx)))

\* self.raw_data_dict[tid], lines 31 and 47
TupleOf(d, tid) == d[CHOOSE i \in 1..Len(d) : d[i]["_tid_"] = tid]

(***************************************************************************)
(* SpecFeat: specific_setup() and create_tensor() on one tuple, the cell    *)
(* domain table holding a cell of attribute A and possibly one of B.        *)
(***************************************************************************)
FeatAttrs == <<"A", "B", "C">>      \* ds.get_attributes()

\* the columns create_tensor reads of a cell_domain record (line 42)
FeatRecord(tid, attr, v, dom) ==
    [_tid_ |-> tid, attribute |-> attr, _vid_ |-> v, domain |-> dom]

FeatDomains == {<<"x">>, <<"w", "x">>, <<"x", "y", "z">>, <<"z", "w", "y">>}

FeatTuples ==
    {[_tid_ |-> 0, A |-> a, B |-> b, C |-> "q"] : a \in {"x", NULL}, b \in {"p", NULL}}

\* self._corr_attrs at threshold 0: the attributes correlated with A, in
\* any order, with A itself or without; B is correlated with A
FeatCorrAttrs ==
    {[a \in {"A", "B"} |-> IF a = "A" THEN l ELSE <<"A">>] :
        l \in {<<"B", "C">>, <<"C", "B">>, <<"A", "B">>, <<>>}}

\* co-occurrence counts of B = p with the values of A: any candidate list,
\* or no entry for p at all; the counts of the other pairs are fixed
FeatPairStats(m) ==
    [a1 \in {"A", "B", "C"} |->
        IF a1 = "B" THEN [a2 \in {"A"} |-> m]
        ELSE IF a1 = "C" THEN [a2 \in {"A"} |-> [v \in {"q"} |-> <<<<"x", 1>>>>]]
        ELSE [a2 \in {"B"} |-> [v \in {"x"} |-> <<<<"r", 1>>, <<"p", 1>>>>]]]

FeatSingleStats(n) ==
    [a \in {"A", "B", "C"} |->
        IF a = "B" THEN [v \in {"p"} |-> n] ELSE [v \in {"x", "q"} |-> 2]]

InitFeat ==
    /\ env \in [seed : {1}, cor_strength : {50}, domain_top_percentile : {90},
                domain_thresh_2 : {0}, weak_label_thresh : {100}, max_domain : {1}]
    /\ max_sample = 1
    /\ \E t \in FeatTuples : raw = <<t>>
    /\ active_attributes = {"A", "B"}
    /\ correlations = [cols |-> <<>>, coef |-> EmptyMap]
    /\ \/ \E cands \in CandLists, slack \in {0, 1} :
             /\ pair_stats = FeatPairStats([v \in {"p"} |-> cands])
             /\ single_stats = FeatSingleStats(SumCounts(cands) + slack)
       \/ /\ pair_stats = FeatPairStats(EmptyMap)
          /\ single_stats = FeatSingleStats(1)
    /\ hash_order = HashBase
    /\ estimator = "even"
    /\ pc = "specific_setup"
    /\ error = "none"
    /\ pruned_pair_stats = EmptyMap
    /\ temp_stats = EmptyMap
    /\ rng = 1
    /\ ri = 1
    /\ ai = 1
    /\ vid = 0
    /\ cells = <<>>
    /\ domain_df = NoBatch
    /\ preds = <<>>
    /\ updated_domain_df = <<>>
    /\ num_weak_labels = 0
    /\ \E dom \in FeatDomains, more \in BOOLEAN :
          result = IF more
                   THEN <<FeatRecord(0, "B", 1, <<"p", "r">>), FeatRecord(0, "A", 0, dom)>>
                   ELSE <<FeatRecord(0, "A", 0, dom)>>
    /\ cell_ret = NoRet
    /\ run = 1
    /\ prev_result = NoBatch
    /\ corr_attrs \in FeatCorrAttrs
    /\ attr_pair_to_idx = EmptyMap
    /\ classes \in {3, 4}
    /\ tensors = <<>>

engine == <<hash_order, pruned_pair_stats, temp_stats, rng, ri, ai, vid, cells,
            domain_df, preds, updated_domain_df, num_weak_labels, result, cell_ret,
            run, prev_result>>

\* specific_setup(), lines 12-28; setup_stats() reads the statistics
SpecificSetup ==
    /\ pc = "specific_setup"
    /\ attr_pair_to_idx' = PairToIdx(PairList(FeatAttrs, 1, corr_attrs))
    /\ pc' = "create_tensor"
    /\ UNCHANGED <<inputs, engine, error, corr_attrs, classes, tensors>>

\* create_tensor(), lines 42-49: the tensor of the next record in _vid_ order
GenFeatTensor ==
    /\ pc = "create_tensor"
    /\ Len(tensors) < Len(result)
    /\ LET row == SortByVid(result)[Len(tensors) + 1]
           out == gen_feat_tensor(row, TupleOf(raw, row._tid_), FeatAttrs,
                                  attr_pair_to_idx, classes, single_stats, pair_stats)
       IN  IF out.raised
           THEN /\ pc' = "error"
                /\ error' = "Exception"
                /\ tensors' = tensors
           ELSE /\ tensors' = Append(tensors, out.tensor)
                /\ pc' = pc
                /\ error' = error
    /\ UNCHANGED <<inputs, engine, corr_attrs, attr_pair_to_idx, classes>>

\* create_tensor(), lines 50-51: torch.cat(tensors) is the list itself, one
\* slice per record
CatTensors ==
    /\ pc = "create_tensor"
    /\ Len(tensors) = Len(result)
    /\ pc' = "featurized"
    /\ UNCHANGED <<inputs, engine, error, featurizer>>

NextFeat == SpecificSetup \/ GenFeatTensor \/ CatTensors

SpecFeat == InitFeat /\ [][NextFeat]_vars

\* the record and the tuple tensors[k] was built from
FeatRow(k) == SortByVid(result)[k]
FeatTuple(k) == TupleOf(raw, FeatRow(k)._tid_)

\* the feature channels, and the pair of attributes of channel f
Channels == 0..(Cardinality(DOMAIN attr_pair_to_idx) - 1)
PairOf(f) == CHOOSE p \in DOMAIN attr_pair_to_idx : attr_pair_to_idx[p] = f

\* channel f scores the cell of tensors[k]: it pairs the cell's attribute
\* with another one, whose value in the tuple is present and has pair
\* statistics
Scores(k, f) ==
    LET p == PairOf(f) IN
    /\ p[1] = FeatRow(k).attribute
    /\ p[2] # p[1]
    /\ FeatTuple(k)[p[2]] # NULL
    /\ FeatTuple(k)[p[2]] \in DOMAIN pair_stats[p[2]][p[1]]

\* count(v, d): how often d was observed with the tuple's value v of the
\* other attribute of channel f, and count(v)
PairCount(k, f, d) ==
    LET p == PairOf(f)
        items == pair_stats[p[2]][p[1]][FeatTuple(k)[p[2]]]
    IN  IF \E c \in 1..Len(items) : items[c][1] = d
        THEN items[CHOOSE c \in 1..Len(items) : items[c][1] = d][2]
        ELSE 0
SingleCount(k, f) == single_stats[PairOf(f)[2]][FeatTuple(k)[PairOf(f)[2]]]

\* the number of values observed with v, against the size of the domain
Observed(k, f) == Len(pair_stats[PairOf(f)[2]][PairOf(f)[1]][FeatTuple(k)[PairOf(f)[2]]])

\* C11: in every tensor built, the entry [i][f] of a channel f that scores
\* the cell is count(v, d) / count(v) for the candidate d at index i of the
\* domain (0 when d was never observed with v), however many values were
\* observed with v; every other entry is 0.
C11_TensorIsCooccurrenceRatio ==
    \A k \in 1..Len(tensors) : \A f \in Channels : \A i \in 0..(classes - 1) :
        LET e == tensors[k][i][f] IN
        IF Scores(k, f) /\ i < Len(FeatRow(k).domain)
        THEN e[1] * SingleCount(k, f) = PairCount(k, f, FeatRow(k).domain[i + 1]) * e[2]
        ELSE e[1] = 0

\* a cell of two candidates with one channel where three values were
\* observed and one where a single value was, a candidate never observed
\* that is scored 0 on both, and one scored above 0
C11_Witness ==
    /\ pc = "featurized"
    /\ \E k \in 1..Len(tensors) : \E f, g \in Channels :
          /\ Scores(k, f) /\ Scores(k, g)
          /\ Len(FeatRow(k).domain) = 2
          /\ Observed(k, f) = 3
          /\ Observed(k, g) = 1
          /\ \E i \in 0..1 : tensors[k][i][f][1] = 0 /\ tensors[k][i][g][1] = 0
          /\ \E i \in 0..1 : tensors[k][i][f][1] > 0 /\ tensors[k][i][f][1] < tensors[k][i][f][2]
====
